---- MODULE Spec2Model ----
(***************************************************************************)
(* A model of scripts/scrape_defenders.py: the retrying fetch, the parse   *)
(* of one rumours-table row, the main loop with the optional profile       *)
(* enrichment, and the rendering of the e-mail markup.                     *)
(*                                                                         *)
(* A Python str is a tuple of one-character strings, so that substring     *)
(* tests, lower-casing, whitespace normalisation and the width regex are   *)
(* computed character by character.  The token "sz" stands for the one     *)
(* character U+00DF.  Python's None is the empty tuple None and a present  *)
(* value v is Some(v).                                                     *)
(***************************************************************************)
EXTENDS Integers, Sequences, FiniteSets, TLC

VARIABLES
    pc,              \* where main (or a direct call) stands
    FETCH_PROFILES,  \* the toggle read from the environment
    resp,            \* main's resp: None until the listing page is fetched
    todo,            \* rows of the table not yet iterated
    seen,            \* rows the loop has taken so far, in order
    tr,              \* the row being parsed
    item,            \* the result of extract_rumour_row for tr
    items,           \* main's items list
    log,             \* profile calls and politeness pauses, in order
    json_file,       \* out/defender_rumours.json: None until written
    html_file,       \* out/defender_rumours.html: None until written
    fetch            \* the frame of the running fetch_with_retries call

vars == <<pc, FETCH_PROFILES, resp, todo, seen, tr, item, items, log,
          json_file, html_file, fetch>>

None == <<>>

Some(v) == <<v>>

\* Python truthiness of an Optional[str].
Truthy(o) == o # None /\ o[1] # <<>>

BASE_URL == <<"h","t","t","p","s",":","/","/","w","w","w",".","t","r","a","n","s","f","e","r","m","a","r","k","t",".","c","o","m">>

DEFENDER_KEYWORDS ==
    { <<"d","e","f","e","n","d","e","r">>,
      <<"c","e","n","t","r","e","-","b","a","c","k">>,
      <<"c","e","n","t","e","r","-","b","a","c","k">>,
      <<"c","e","n","t","r","e"," ","b","a","c","k">>,
      <<"c","e","n","t","e","r"," ","b","a","c","k">>,
      <<"l","e","f","t","-","b","a","c","k">>,
      <<"l","e","f","t"," ","b","a","c","k">>,
      <<"r","i","g","h","t","-","b","a","c","k">>,
      <<"r","i","g","h","t"," ","b","a","c","k">>,
      <<"w","i","n","g","-","b","a","c","k">>,
      <<"w","i","n","g","b","a","c","k">>,
      <<"f","u","l","l","-","b","a","c","k">>,
      <<"f","u","l","l","b","a","c","k">>,
      <<"i","n","n","e","n","v","e","r","t","e","i","d","i","g","e","r">>,
      <<"r","e","c","h","t","e","r"," ","v","e","r","t","e","i","d","i","g","e","r">>,
      <<"l","i","n","k","e","r"," ","v","e","r","t","e","i","d","i","g","e","r">>,
      <<"a","u","sz","e","n","v","e","r","t","e","i","d","i","g","e","r">>,
      <<"a","u","s","s","e","n","v","e","r","t","e","i","d","i","g","e","r">>,
      <<"v","e","r","t","e","i","d","i","g","e","r">> }

LowerTable ==
    ("A" :> "a") @@ ("B" :> "b") @@ ("C" :> "c") @@ ("D" :> "d") @@ ("E" :> "e") @@ ("F" :> "f")
    @@ ("G" :> "g") @@ ("H" :> "h") @@ ("I" :> "i") @@ ("J" :> "j") @@ ("K" :> "k") @@ ("L" :> "l")
    @@ ("M" :> "m") @@ ("N" :> "n") @@ ("O" :> "o") @@ ("P" :> "p") @@ ("Q" :> "q") @@ ("R" :> "r")
    @@ ("S" :> "s") @@ ("T" :> "t") @@ ("U" :> "u") @@ ("V" :> "v") @@ ("W" :> "w") @@ ("X" :> "x")
    @@ ("Y" :> "y") @@ ("Z" :> "z")

CodePoint ==
    ("\t" :> 9) @@ ("\n" :> 10) @@ ("sz" :> 223)
    @@ (" " :> 32) @@ ("!" :> 33) @@ ("\"" :> 34) @@ ("#" :> 35) @@ ("$" :> 36) @@ ("%" :> 37)
    @@ ("&" :> 38) @@ ("'" :> 39) @@ ("(" :> 40) @@ (")" :> 41) @@ ("*" :> 42) @@ ("+" :> 43)
    @@ ("," :> 44) @@ ("-" :> 45) @@ ("." :> 46) @@ ("/" :> 47) @@ ("0" :> 48) @@ ("1" :> 49)
    @@ ("2" :> 50) @@ ("3" :> 51) @@ ("4" :> 52) @@ ("5" :> 53) @@ ("6" :> 54) @@ ("7" :> 55)
    @@ ("8" :> 56) @@ ("9" :> 57) @@ (":" :> 58) @@ (";" :> 59) @@ ("<" :> 60) @@ ("=" :> 61)
    @@ (">" :> 62) @@ ("?" :> 63) @@ ("@" :> 64) @@ ("A" :> 65) @@ ("B" :> 66) @@ ("C" :> 67)
    @@ ("D" :> 68) @@ ("E" :> 69) @@ ("F" :> 70) @@ ("G" :> 71) @@ ("H" :> 72) @@ ("I" :> 73)
    @@ ("J" :> 74) @@ ("K" :> 75) @@ ("L" :> 76) @@ ("M" :> 77) @@ ("N" :> 78) @@ ("O" :> 79)
    @@ ("P" :> 80) @@ ("Q" :> 81) @@ ("R" :> 82) @@ ("S" :> 83) @@ ("T" :> 84) @@ ("U" :> 85)
    @@ ("V" :> 86) @@ ("W" :> 87) @@ ("X" :> 88) @@ ("Y" :> 89) @@ ("Z" :> 90) @@ ("[" :> 91)
    @@ ("]" :> 93) @@ ("^" :> 94) @@ ("_" :> 95) @@ ("a" :> 97)
    @@ ("b" :> 98) @@ ("c" :> 99) @@ ("d" :> 100) @@ ("e" :> 101) @@ ("f" :> 102) @@ ("g" :> 103)
    @@ ("h" :> 104) @@ ("i" :> 105) @@ ("j" :> 106) @@ ("k" :> 107) @@ ("l" :> 108) @@ ("m" :> 109)
    @@ ("n" :> 110) @@ ("o" :> 111) @@ ("p" :> 112) @@ ("q" :> 113) @@ ("r" :> 114) @@ ("s" :> 115)
    @@ ("t" :> 116) @@ ("u" :> 117) @@ ("v" :> 118) @@ ("w" :> 119) @@ ("x" :> 120) @@ ("y" :> 121)
    @@ ("z" :> 122) @@ ("{" :> 123) @@ ("|" :> 124) @@ ("}" :> 125) @@ ("~" :> 126)

lower(s) == [i \in 1..Len(s) |-> IF s[i] \in DOMAIN LowerTable THEN LowerTable[s[i]] ELSE s[i]]

\* needle in hay
Contains(hay, needle) ==
    \E i \in 0..(Len(hay) - Len(needle)) : SubSeq(hay, i + 1, i + Len(needle)) = needle

StartsWith(s, p) == Len(s) >= Len(p) /\ SubSeq(s, 1, Len(p)) = p

IsSpace(c) == c \in {" ", "\t", "\n"}

IsDigit(c) == c \in {"0", "1", "2", "3", "4", "5", "6", "7", "8", "9"}

\* First index >= i of s that holds no whitespace (Len(s) + 1 when there is none).
RECURSIVE SkipSpace(_, _)
SkipSpace(s, i) == IF i <= Len(s) /\ IsSpace(s[i]) THEN SkipSpace(s, i + 1) ELSE i

\* First index >= i of s that holds no digit.
RECURSIVE SkipDigits(_, _)
SkipDigits(s, i) == IF i <= Len(s) /\ IsDigit(s[i]) THEN SkipDigits(s, i + 1) ELSE i

\* re.sub(r"\s+", " ", s)
RECURSIVE CollapseSpace(_)
CollapseSpace(s) ==
    IF s = <<>> THEN <<>>
    ELSE IF IsSpace(Head(s))
         THEN <<" ">> \o CollapseSpace(SubSeq(s, SkipSpace(s, 1), Len(s)))
         ELSE <<Head(s)>> \o CollapseSpace(Tail(s))

\* str.strip()
RECURSIVE Strip(_)
Strip(s) ==
    IF s = <<>> THEN <<>>
    ELSE IF IsSpace(Head(s)) THEN Strip(Tail(s))
    ELSE IF IsSpace(s[Len(s)]) THEN Strip(SubSeq(s, 1, Len(s) - 1))
    ELSE s

norm(s) == Strip(CollapseSpace(s))

\* text(el): el is None or Some of an element with its text content in txt.
text(el) == IF el = None THEN <<>> ELSE norm(el[1].txt)

is_defender(position_text) ==
    LET p == lower(position_text)
    IN  \E k \in DEFENDER_KEYWORDS : Contains(p, k)

\* int() of a run of decimal digits.
RECURSIVE ParseInt(_)
ParseInt(ds) ==
    IF ds = <<>> THEN 0
    ELSE 10 * ParseInt(SubSeq(ds, 1, Len(ds) - 1)) + (CodePoint[ds[Len(ds)]] - 48)

Min(a, b) == IF a <= b THEN a ELSE b

Max(a, b) == IF a >= b THEN a ELSE b

\* The match of width\s*:\s*(\d{1,3})\s*% that starts at index p of style:
\* None, or Some of the digits of group 1.
WidthMatchAt(style, p) ==
    LET w  == <<"w","i","d","t","h">>
        a  == SkipSpace(style, p + Len(w))
        b  == SkipSpace(style, a + 1)
        c  == SkipDigits(style, b)
        d  == SkipSpace(style, c)
    IN  IF /\ p + Len(w) - 1 <= Len(style)
           /\ SubSeq(style, p, p + Len(w) - 1) = w
           /\ a <= Len(style) /\ style[a] = ":"
           /\ c - b >= 1 /\ c - b <= 3
           /\ d <= Len(style) /\ style[d] = "%"
        THEN Some(SubSeq(style, b, c - 1))
        ELSE None

\* re.search: the leftmost match.
RECURSIVE WidthSearch(_, _)
WidthSearch(style, p) ==
    IF p > Len(style) THEN None
    ELSE IF WidthMatchAt(style, p) # None THEN WidthMatchAt(style, p)
    ELSE WidthSearch(style, p + 1)

\* ClampPercent without the clamp: the parsed value as it is.
ClampPercentOff(val) == val

ClampPercent(val) == Max(0, Min(100, val))

parse_prob_from_style(style) ==
    IF style = <<>> THEN None
    ELSE LET m == WidthSearch(style, 1)
         IN  IF m = None THEN None ELSE Some(ClampPercent(ParseInt(m[1])))

\* " ".join(parts)
RECURSIVE JoinSpace(_)
JoinSpace(parts) ==
    IF parts = <<>> THEN <<>>
    ELSE IF Len(parts) = 1 THEN parts[1]
    ELSE parts[1] \o <<" ">> \o JoinSpace(Tail(parts))

\* urljoin(base, url) for a base without a path: an absolute url stands, a
\* scheme-relative one takes the base's scheme, a path is put under the host.
urljoin(base, url) ==
    IF url = <<>> THEN base
    ELSE IF StartsWith(url, <<"h","t","t","p",":","/","/">>) \/ StartsWith(url, <<"h","t","t","p","s",":","/","/">>) THEN url
    ELSE IF StartsWith(url, <<"/","/">>) THEN <<"h","t","t","p","s",":">> \o url
    ELSE IF StartsWith(url, <<"/">>) THEN base \o url
    ELSE base \o <<"/">> \o url

\* The href filter of the source lookup,
\*     lambda h: h and "/news/" in h or "/geruechte/" in h
\* which Python reads as (h and "/news/" in h) or ("/geruechte/" in h): for a
\* missing href (h is None) the right operand tests membership in None.
SourceHrefFilter(h) ==
    IF h = None THEN "TypeError"
    ELSE IF h[1] # <<>> /\ Contains(h[1], <<"/","n","e","w","s","/">>) THEN "match"
    ELSE IF Contains(h[1], <<"/","g","e","r","u","e","c","h","t","e","/">>) THEN "match"
    ELSE "no"

\* tr.find("a", href=...): the anchors of the row in document order, the filter
\* called with each one's href (None when the anchor has none) up to the first match.
RECURSIVE FindSource(_, _)
FindSource(anchors, i) ==
    IF i > Len(anchors) THEN [kind |-> "none"]
    ELSE LET r == SourceHrefFilter(anchors[i].href)
         IN  IF r = "TypeError" THEN [kind |-> "raise", exc |-> "TypeError"]
             ELSE IF r = "match" THEN [kind |-> "found", el |-> anchors[i]]
             ELSE FindSource(anchors, i + 1)

\* The position loop: the first candidate text that is non-empty and a defender's.
RECURSIVE FindPosition(_, _)
FindPosition(els, i) ==
    IF i > Len(els) THEN <<>>
    ELSE LET t == text(Some(els[i]))
         IN  IF t # <<>> /\ is_defender(t) THEN t ELSE FindPosition(els, i + 1)

\* TransferType with the two return phrases tested before "loan".
TransferTypeReturnFirst(tip_text) ==
    IF Contains(tip_text, <<"r","e","t","u","r","n"," ","f","r","o","m"," ","l","o","a","n">>) \/ Contains(tip_text, <<"e","n","d"," ","o","f"," ","l","o","a","n">>)
    THEN <<"R","e","t","u","r","n","/","E","n","d"," ","o","f"," ","l","o","a","n">>
    ELSE IF Contains(tip_text, <<"l","o","a","n">>) THEN <<"L","o","a","n">>
    ELSE IF Contains(tip_text, <<"f","r","e","e"," ","t","r","a","n","s","f","e","r">>) \/ Contains(tip_text, <<"w","i","t","h","o","u","t"," ","f","e","e">>)
         THEN <<"F","r","e","e">>
    ELSE IF Contains(tip_text, <<"t","r","a","n","s","f","e","r">>) \/ Contains(tip_text, <<"w","e","c","h","s","e","l">>)
         THEN <<"T","r","a","n","s","f","e","r">>
    ELSE <<>>

\* The transfer type heuristic over the lower-cased, space-joined title attributes.
TransferType(tip_text) ==
    IF Contains(tip_text, <<"l","o","a","n">>) THEN <<"L","o","a","n">>
    ELSE IF Contains(tip_text, <<"r","e","t","u","r","n"," ","f","r","o","m"," ","l","o","a","n">>) \/ Contains(tip_text, <<"e","n","d"," ","o","f"," ","l","o","a","n">>)
         THEN <<"R","e","t","u","r","n","/","E","n","d"," ","o","f"," ","l","o","a","n">>
    ELSE IF Contains(tip_text, <<"f","r","e","e"," ","t","r","a","n","s","f","e","r">>) \/ Contains(tip_text, <<"w","i","t","h","o","u","t"," ","f","e","e">>)
         THEN <<"F","r","e","e">>
    ELSE IF Contains(tip_text, <<"t","r","a","n","s","f","e","r">>) \/ Contains(tip_text, <<"w","e","c","h","s","e","l">>)
         THEN <<"T","r","a","n","s","f","e","r">>
    ELSE <<>>

\* urljoin(BASE_URL, logo["src"]) when the club link holds a logo with a src.
ClubLogo(a) == IF Truthy(a.logo_src) THEN urljoin(BASE_URL, a.logo_src[1]) ELSE <<>>

\* extract_rumour_row(tr).  A row is what the function's selectors find in it:
\*   tds              the number of top-level cells
\*   player_link      the first a[href*='/profil/spieler/'] of the player cell
\*   player_cell_text the text of the whole player cell (no selector reads it)
\*   position_els     table.inline-table td, small, span of the player cell
\*   club_links       a.vereinprofil_tooltip of the row
\*   date_abbr        the title of td:last-child abbr[title] or span[title]
\*   last_td_text     the text of td:last-child
\*   prob_bar         the style of the probability bar element
\*   anchors          every a of the row, in document order
\*   titles           the title attributes of the row
\* The result is [kind |-> "none"], [kind |-> "raise", ...] or a record.
extract_rumour_row(r) ==
    IF r.tds = 0 THEN [kind |-> "none"]
    ELSE
    LET player_link == r.player_link
        player_name == text(player_link)
        profile_href == IF player_link # None THEN player_link[1].href ELSE <<>>
        profile_url == IF profile_href # <<>> THEN urljoin(BASE_URL, profile_href) ELSE <<>>
        position == FindPosition(r.position_els, 1)
        club_links == r.club_links
        curr == IF club_links # <<>> THEN Some(club_links[1]) ELSE None
        last == IF Len(club_links) >= 2 THEN Some(club_links[Len(club_links)]) ELSE None
        rumour_date == IF Truthy(r.date_abbr) THEN r.date_abbr[1]
                       ELSE norm(r.last_td_text)
        probability == IF r.prob_bar # None THEN parse_prob_from_style(r.prob_bar[1])
                       ELSE None
        source_a == FindSource(r.anchors, 1)
        tip_text == lower(JoinSpace(r.titles))
    IN  IF ~is_defender(position) THEN [kind |-> "none"]
        ELSE IF source_a.kind = "raise" THEN source_a
        ELSE [kind |-> "record",
              player |-> player_name,
              position |-> IF position # <<>> THEN position ELSE <<"D","e","f","e","n","d","e","r">>,
              profile_link |-> profile_url,
              current_club |-> text(curr),
              current_club_logo |-> IF curr # None THEN ClubLogo(curr[1]) ELSE <<>>,
              interested_club |-> text(last),
              interested_club_logo |-> IF last # None THEN ClubLogo(last[1]) ELSE <<>>,
              rumour_date |-> rumour_date,
              probability |-> probability,
              source_name |-> IF source_a.kind = "found" THEN text(Some(source_a.el)) ELSE <<>>,
              source_link |-> IF source_a.kind = "found"
                              THEN urljoin(BASE_URL, source_a.el.href[1]) ELSE <<>>,
              transfer_type |-> TransferType(tip_text)]

\* ---------------------------------------------------------------------
\* Rows of the listing page.

AnchorOf(a) == [txt |-> a.txt, href |-> a.href]

\* A row with a player cell, built the way the page nests it: the player link
\* (when the name is linked) and the club links are anchors of the row, in that
\* order, before any other anchor; the date's title is one of the row's titles.
MkRow(name, href, cands, clubs, date, bar, extras, tips) ==
    [tds |-> 3,
     player_link |-> IF href = None THEN None
                     ELSE Some([txt |-> name, href |-> href[1]]),
     player_cell_text |-> JoinSpace(<<name>> \o cands),
     position_els |-> [i \in 1..Len(cands) |-> [txt |-> cands[i]]],
     club_links |-> clubs,
     date_abbr |-> date.title,
     last_td_text |-> date.txt,
     prob_bar |-> bar,
     anchors |-> (IF href = None THEN <<>> ELSE <<[txt |-> name, href |-> href]>>)
                 \o [i \in 1..Len(clubs) |-> AnchorOf(clubs[i])] \o extras,
     titles |-> tips \o (IF date.title = None THEN <<>> ELSE date.title)]

\* A row without top-level cells (a spacer row).
NoCellsRow ==
    [tds |-> 0, player_link |-> None, player_cell_text |-> <<>>, position_els |-> <<>>,
     club_links |-> <<>>, date_abbr |-> None, last_td_text |-> <<>>, prob_bar |-> None,
     anchors |-> <<>>, titles |-> <<>>]

ProfileHref == Some(<<"/","m","a","x","-","m","u","s","t","e","r","/","p","r","o","f","i","l","/","s","p","i","e","l","e","r","/","7">>)

ClubA == [txt |-> <<" ","F","C"," "," ","A"," ">>, href |-> Some(<<"/","f","c","-","a","/","s","t","a","r","t","s","e","i","t","e","/","v","e","r","e","i","n","/","1">>),
          logo_src |-> Some(<<"/","i","m","g","/","a",".","p","n","g">>)]

ClubB == [txt |-> <<"B","&","C"," ","<","U","2","3",">">>, href |-> Some(<<"/","b","/","s","t","a","r","t","s","e","i","t","e","/","v","e","r","e","i","n","/","2">>),
          logo_src |-> Some(<<"/","/","c","d","n",".","t","e","s","t","/","b",".","p","n","g","?","x","=","\"","1","\"">>)]

ClubC == [txt |-> <<"S","V"," ","C">>, href |-> Some(<<"/","c","/","s","t","a","r","t","s","e","i","t","e","/","v","e","r","e","i","n","/","3">>), logo_src |-> None]

DateTitled == [title |-> Some(<<"2","0","2","5","-","0","9","-","0","4">>), txt |-> <<"0","4","/","0","9","/","2","5">>]

DateUntitled == [title |-> None, txt |-> <<" ","0","4","/","0","9","/","2","5","\n">>]

NewsAnchor == [txt |-> <<"k","i","c","k","e","r">>, href |-> Some(<<"/","n","e","w","s","/","1">>)]

RumourAnchor == [txt |-> <<>>, href |-> Some(<<"h","t","t","p","s",":","/","/","x",".","t","e","s","t","/","g","e","r","u","e","c","h","t","e","/","2">>)]

\* <a name="top">: an anchor without an href.
BareAnchor == [txt |-> <<"t","o","p">>, href |-> None]

RowNames == { <<"M","a","x","\n"," "," ","M","u","s","t","e","r">>, <<"A","<","b",">","&","\"","'">> }

RowHrefs == { None, ProfileHref }

RowCands ==
    { <<>>,
      << <<"C","e","n","t","r","e","-","B","a","c","k">> >>,
      << <<"C","e","n","t","r","a","l"," ","M","i","d","f","i","e","l","d">> >>,
      << <<>>, <<"S","t","r","i","k","e","r">>, <<" ","x","x","I","N","N","E","N","V","E","R","T","E","I","D","I","G","E","R","x","x","\n">> >>,
      << <<"D","e","f","e","n","s","i","v","e"," ","M","i","d","f","i","e","l","d">>, <<"A","u","s","f","l","u","g">> >>,
      << <<"R","e","c","h","t","e","r"," ","A","u","sz","e","n","v","e","r","t","e","i","d","i","g","e","r">> >> }

RowClubs == { <<>>, <<ClubA>>, <<ClubA, ClubC, ClubB>> }

RowDates == { DateTitled, DateUntitled }

RowBars ==
    { None,
      Some(<<"w","i","d","t","h",":","8","0","%">>),
      Some(<<"m","a","x","-","w","i","d","t","h",":"," ","9","p","x",";"," ","w","i","d","t","h"," ",":"," ","4","0"," ","%">>),
      Some(<<"w","i","d","t","h",":","1","5","0","%">>),
      Some(<<"w","i","d","t","h",":","1","5","0","0","%">>),
      Some(<<"w","i","d","t","h",":","a","u","t","o">>) }

RowExtras == { <<>>, <<NewsAnchor>>, <<BareAnchor, NewsAnchor>>, <<RumourAnchor, BareAnchor>> }

RowTips ==
    { <<>>,
      << <<"L","o","a","n">> >>,
      << <<"F","C"," ","A">>, <<"R","e","t","u","r","n"," ","f","r","o","m"," ","l","o","a","n">> >>,
      << <<"E","n","d"," ","o","f"," ","l","o","a","n">> >>,
      << <<"F","r","e","e"," ","t","r","a","n","s","f","e","r">> >>,
      << <<"W","i","t","h","o","u","t"," ","f","e","e">> >>,
      << <<"V","e","r","e","i","n","s","w","e","c","h","s","e","l">> >>,
      << <<"L","e","i","h","e">> >> }

RowUniverse ==
    { NoCellsRow } \cup
    { MkRow(n, h, c, cl, d, b, e, t) :
        n \in RowNames, h \in RowHrefs, c \in RowCands, cl \in RowClubs,
        d \in RowDates, b \in RowBars, e \in RowExtras, t \in RowTips }

\* ---------------------------------------------------------------------
\* A direct call of extract_rumour_row on one row.

Idle == [st |-> "idle"]

Unset == [kind |-> "unset"]

InitRow ==
    /\ pc = "extract"
    /\ tr \in RowUniverse
    /\ item = Unset
    /\ FETCH_PROFILES = TRUE
    /\ resp = None /\ todo = 0 /\ seen = <<>> /\ items = <<>> /\ log = <<>>
    /\ json_file = None /\ html_file = None /\ fetch = Idle

CallExtract ==
    /\ pc = "extract"
    /\ item' = extract_rumour_row(tr)
    /\ pc' = "extracted"
    /\ UNCHANGED <<FETCH_PROFILES, resp, todo, seen, tr, items, log, json_file,
                   html_file, fetch>>

NextRow == CallExtract

SpecRow == InitRow /\ [][NextRow]_vars

\* ---------------------------------------------------------------------
\* fetch_with_retries.  A frame holds the call's arguments and locals, the
\* outcome of each GET made so far and each time.sleep made so far.  Durations
\* are in tenths of a second.

DefaultMaxRetries == 3

\* backoff = 1.6
DefaultBackoff == 16

\* What s.get or raise_for_status raises.
GetExceptions == {"Timeout", "ConnectionError", "HTTPError"}

\* SleepsAfterFailure with <= for <: a sleep after the last attempt too.
SleepsAfterEveryFailure(i, max_retries) == i <= max_retries

\* if i < max_retries: time.sleep(backoff * i)
SleepsAfterFailure(i, max_retries) == i < max_retries

\* The frame on entry: the loop body runs only when range(1, max_retries + 1)
\* is not empty; otherwise last_exc is None and RuntimeError is raised.
CallFetch(max_retries, backoff) ==
    [st |-> IF max_retries >= 1 THEN "trying" ELSE "raised",
     i |-> 1, max_retries |-> max_retries, backoff |-> backoff,
     last_exc |-> None, gets |-> <<>>, sleeps |-> <<>>,
     raised |-> IF max_retries >= 1 THEN None ELSE Some("RuntimeError")]

\* Iteration i, the GET succeeds: return resp.
GetOk ==
    /\ fetch.st = "trying"
    /\ fetch' = [fetch EXCEPT !.st = "returned", !.gets = Append(@, "ok")]
    /\ UNCHANGED <<pc, FETCH_PROFILES, resp, todo, seen, tr, item, items, log,
                   json_file, html_file>>

\* Iteration i, the GET raises e: remember it, sleep unless this was the last
\* iteration, and after the last iteration raise last_exc.
GetFail(e) ==
    /\ fetch.st = "trying"
    /\ fetch' = [fetch EXCEPT
                   !.gets = Append(@, e),
                   !.last_exc = Some(e),
                   !.sleeps = IF SleepsAfterFailure(fetch.i, fetch.max_retries)
                              THEN Append(@, fetch.backoff * fetch.i) ELSE @,
                   !.i = @ + 1,
                   !.st = IF fetch.i + 1 <= fetch.max_retries THEN "trying" ELSE "raised",
                   !.raised = IF fetch.i + 1 <= fetch.max_retries THEN None ELSE Some(e)]
    /\ UNCHANGED <<pc, FETCH_PROFILES, resp, todo, seen, tr, item, items, log,
                   json_file, html_file>>

\* A direct call fetch_with_retries(url, max_retries, backoff).
MaxRetriesArg == 3

BackoffArgs == {5, 16}

InitFetch ==
    /\ pc = "fetch"
    /\ \E m \in 0..MaxRetriesArg, b \in BackoffArgs : fetch = CallFetch(m, b)
    /\ FETCH_PROFILES = TRUE
    /\ resp = None /\ todo = 0 /\ seen = <<>> /\ tr = NoCellsRow /\ item = Unset
    /\ items = <<>> /\ log = <<>> /\ json_file = None /\ html_file = None

NextFetch == GetOk \/ \E e \in GetExceptions : GetFail(e)

SpecFetch == InitFetch /\ [][NextFetch]_vars

\* ---------------------------------------------------------------------
\* extract_player_details.  A profile page is what the selectors find in it:
\*   data_zeit    the data-zeit attribute of the first span[data-zeit]
\*   flag_titles  the titles of img.flaggenrahmen[title]
\*   contract_next the text after the "Contract expires" label
\*   contract_alt  the text of the alternative location
\*   mv_text      the text of div.data-header__market-value-wrapper
\* The tokens "eur" and "gbp" stand for the euro and the pound sign.

\* int(dt.datetime.utcnow().timestamp()) of the run
NowTs == 1793664000

\* 365.2425 * 24 * 3600
YearSeconds == 31556952

IsDigits(s) == s # <<>> /\ \A i \in 1..Len(s) : IsDigit(s[i])

DigitChar == <<"0", "1", "2", "3", "4", "5", "6", "7", "8", "9">>

\* str(n) for 0 <= n <= 99
StrOfInt(n) == IF n < 10 THEN <<DigitChar[n + 1]>>
               ELSE <<DigitChar[(n \div 10) + 1], DigitChar[(n % 10) + 1]>>

\* ", ".join(parts)
RECURSIVE JoinComma(_)
JoinComma(parts) ==
    IF parts = <<>> THEN <<>>
    ELSE IF Len(parts) = 1 THEN parts[1]
    ELSE parts[1] \o <<",", " ">> \o JoinComma(Tail(parts))

\* the non-empty members of parts, in order
RECURSIVE NonEmpty(_)
NonEmpty(parts) ==
    IF parts = <<>> THEN <<>>
    ELSE IF Head(parts) = <<>> THEN NonEmpty(Tail(parts))
    ELSE <<Head(parts)>> \o NonEmpty(Tail(parts))

IsAmountChar(c) == IsDigit(c) \/ c \in {".", ","}

RECURSIVE SkipAmount(_, _)
SkipAmount(s, i) == IF i <= Len(s) /\ IsAmountChar(s[i]) THEN SkipAmount(s, i + 1) ELSE i

\* The leftmost match of ([€£$]\s?[0-9\.,]+[mMkK]?) from index p on, or None.
RECURSIVE MarketValueSearch(_, _)
MarketValueSearch(s, p) ==
    IF p > Len(s) THEN None
    ELSE LET a == IF p + 1 <= Len(s) /\ IsSpace(s[p + 1]) THEN p + 2 ELSE p + 1
             b == SkipAmount(s, a)
             c == IF b <= Len(s) /\ s[b] \in {"m", "M", "k", "K"} THEN b + 1 ELSE b
         IN  IF s[p] \in {"eur", "gbp", "$"} /\ b > a
             THEN Some(SubSeq(s, p, c - 1))
             ELSE MarketValueSearch(s, p + 1)

EmptyDetails ==
    [age |-> <<>>, nationality |-> <<>>, contract_expiry |-> <<>>, market_value |-> <<>>]

\* The body of the try block, for a fetched page.
ParseProfile(page) ==
    LET years == (NowTs - ParseInt(page.data_zeit[1])) \div YearSeconds
        age == IF page.data_zeit # None /\ IsDigits(page.data_zeit[1])
                  /\ 14 <= years /\ years <= 50
               THEN StrOfInt(years) ELSE <<>>
        nationality == JoinComma(NonEmpty(page.flag_titles))
        contract_expiry == IF text(page.contract_next) # <<>> THEN text(page.contract_next)
                           ELSE text(page.contract_alt)
        mv == IF page.mv_text = None THEN None
              ELSE MarketValueSearch(text(page.mv_text), 1)
    IN  [age |-> age, nationality |-> nationality, contract_expiry |-> contract_expiry,
         market_value |-> IF mv = None THEN <<>> ELSE mv[1]]

\* extract_player_details once its fetch has ended: the parsed page, or the
\* empty fields of the except branch.
extract_player_details(frame, page) ==
    IF frame.st = "returned" THEN ParseProfile(page) ELSE EmptyDetails

FullProfile ==
    [data_zeit |-> Some(<<"9","4","6","6","8","4","8","0","0">>),
     flag_titles |-> << <<"G","e","r","m","a","n","y">>, <<>>, <<"G","h","a","n","a">> >>,
     contract_next |-> Some([txt |-> <<"J","u","n"," ","3","0",",","\n"," ","2","0","2","7">>]),
     contract_alt |-> None,
     mv_text |-> Some([txt |-> <<"eur">> \o <<"2","0",".","0","0","m"," ","L","a","s","t"," ","u","p","d","a","t","e",":"," ","J","u","n"," ","1",","," ","2","0","2","5">>])]

SparseProfile ==
    [data_zeit |-> Some(<<"n","/","a">>),
     flag_titles |-> <<>>,
     contract_next |-> None,
     contract_alt |-> Some([txt |-> <<"C","o","n","t","r","a","c","t"," ","e","x","p","i","r","e","s",":"," ","-">>]),
     mv_text |-> Some([txt |-> <<"M","a","r","k","e","t"," ","v","a","l","u","e",":"," ","-"," ">>])]

ProfilePages == {FullProfile, SparseProfile}

\* ---------------------------------------------------------------------
\* build_email_html.  The markup is a sequence of segments: the fixed skeleton
\* ("markup", kept as opaque text), the interpolated source_url ("config") and
\* the interpolated values of the items ("value", character by character, with
\* the field each comes from).  The returned str is their concatenation.

Lit(s) == <<[k |-> "markup", field |-> "", s |-> s]>>

Val(field, v) == <<[k |-> "value", field |-> field, s |-> v]>>

\* str(n) for 0 <= n <= 999
StrOfPercent(n) == IF n < 100 THEN StrOfInt(n)
                   ELSE <<DigitChar[(n \div 100) + 1]>> \o
                        <<DigitChar[((n % 100) \div 10) + 1], DigitChar[(n % 10) + 1]>>

\* '<img src="' + logo + '" alt="">' if logo else ''
LogoHtml(field, logo) ==
    IF logo # <<>> THEN Lit("<img src=\"") \o Val(field, logo) \o Lit("\" alt=\"\">")
    ELSE <<>>

EmailRow(it) ==
    LET prob == IF it.probability # None
                THEN Val("probability", StrOfPercent(it.probability[1])) \o Lit("%")
                ELSE <<>>
        src_html == IF it.source_link # <<>>
                    THEN Lit("<a href=\"") \o Val("source_link", it.source_link) \o Lit("\">")
                         \o (IF it.source_name # <<>> THEN Val("source_name", it.source_name)
                             ELSE Lit("Link"))
                         \o Lit("</a>")
                    ELSE IF it.source_name # <<>> THEN Val("source_name", it.source_name)
                    ELSE <<>>
    IN  Lit("<tr><td><a href=\"") \o Val("profile_link", it.profile_link)
        \o Lit("\"><strong>") \o Val("player", it.player) \o Lit("</strong></a></td><td>")
        \o Val("position", it.position) \o Lit("</td><td><div class=\"club\">")
        \o LogoHtml("current_club_logo", it.current_club_logo)
        \o Lit("<span>") \o Val("current_club", it.current_club)
        \o Lit("</span></div></td><td><div class=\"club\">")
        \o LogoHtml("interested_club_logo", it.interested_club_logo)
        \o Lit("<span>") \o Val("interested_club", it.interested_club)
        \o Lit("</span></div></td><td><span class=\"tag\">")
        \o Val("transfer_type", it.transfer_type) \o Lit("</span></td><td>")
        \o prob \o Lit("</td><td>")
        \o Val("age", it.age) \o Lit("</td><td>")
        \o Val("nationality", it.nationality) \o Lit("</td><td>")
        \o Val("contract_expiry", it.contract_expiry) \o Lit("</td><td>")
        \o Val("market_value", it.market_value) \o Lit("</td><td>")
        \o Val("rumour_date", it.rumour_date) \o Lit("</td><td>")
        \o src_html \o Lit("</td></tr>")

RECURSIVE EmailRows(_)
EmailRows(its) ==
    IF its = <<>> THEN <<>>
    ELSE EmailRow(Head(its)) \o (IF Len(its) > 1 THEN Lit("\n") ELSE <<>>) \o EmailRows(Tail(its))

build_email_html(its, source_url) ==
    Lit("<html><head><meta charset='utf-8'><style>css</style></head><body>")
    \o Lit("<div class=\"wrap\"><h2>Bundesliga Defender Rumours - today (UTC)</h2>")
    \o Lit("<div class=\"meta\">Source: <a href=\"")
    \o <<[k |-> "config", field |-> "source_url", s |-> source_url]>> \o Lit("\">")
    \o <<[k |-> "config", field |-> "source_url", s |-> source_url]>> \o Lit("</a></div>")
    \o Lit("<table role=\"table\"><thead><tr><th>Player</th>...</tr></thead><tbody>\n")
    \o EmailRows(its)
    \o Lit("\n</tbody></table></div></body></html>")

\* ---------------------------------------------------------------------
\* main.

\* COMPETITION and SEASON_ID at their defaults
URL == BASE_URL \o <<"/","b","u","n","d","e","s","l","i","g","a","/","g","e","r","u","e","c","h","t","e","/","w","e","t","t","b","e","w","e","r","b","/","L","1","/","s","a","i","s","o","n","_","i","d","/","2","0","2","5","/","p","l","u","s","/","1">>

\* PROFILE_SLEEP_S = 1.2
PROFILE_SLEEP_S == 12

\* The most rows a listing page of the model holds.
MaxRows == 2

\* The rows a listing page of the model is made of.
PageRows ==
    { NoCellsRow,
      MkRow(<<"A","m","y">>, ProfileHref, << <<"C","e","n","t","r","e","-","B","a","c","k">> >>, <<ClubA, ClubC>>, DateTitled,
            Some(<<"w","i","d","t","h",":","8","0","%">>), <<NewsAnchor>>, << <<"L","o","a","n">> >>),
      MkRow(<<"B","e","n">>, ProfileHref, << <<"L","e","f","t","-","B","a","c","k">> >>, <<ClubA>>, DateUntitled,
            None, <<>>, <<>>),
      MkRow(<<"A","b","e">>, None, << <<"R","i","g","h","t","-","B","a","c","k">> >>, <<>>, DateTitled,
            Some(<<"w","i","d","t","h",":","8","0","%">>), <<>>, << <<"R","e","t","u","r","n"," ","f","r","o","m"," ","l","o","a","n">> >>),
      MkRow(<<"C","y">>, ProfileHref, << <<"C","e","n","t","r","a","l"," ","M","i","d","f","i","e","l","d">> >>, <<ClubA>>, DateTitled,
            Some(<<"w","i","d","t","h",":","6","0","%">>), <<NewsAnchor>>, <<>>),
      MkRow(<<"D","e","e">>, ProfileHref, << <<"I","n","n","e","n","v","e","r","t","e","i","d","i","g","e","r">> >>, <<ClubA>>, DateTitled,
            Some(<<"w","i","d","t","h",":","3","0","%">>), <<BareAnchor, NewsAnchor>>, <<>>),
      MkRow(<<"A","<","b",">","&","\"","'">>, ProfileHref, << <<"D","e","f","e","n","d","e","r">> >>, <<ClubB, ClubA>>, DateUntitled,
            Some(<<"w","i","d","t","h",":","1","5","0","%">>), <<RumourAnchor>>, << <<"F","r","e","e"," ","t","r","a","n","s","f","e","r">> >>) }

\* The dict of a result of kind "record".
DictOf(res) == [f \in DOMAIN res \ {"kind"} |-> res[f]]

\* item.update(d)
Update(d, it) == d @@ it

\* AfterProfile without the politeness sleep.
AfterProfileNoPause(lg, ok) ==
    lg \o <<[ev |-> "profile_return", ok |-> ok, n |-> 0]>>

\* What the profile branch leaves in the log after extract_player_details
\* returned: the return, then time.sleep(PROFILE_SLEEP_S).
AfterProfile(lg, ok) ==
    lg \o <<[ev |-> "profile_return", ok |-> ok, n |-> 0],
            [ev |-> "sleep", ok |-> TRUE, n |-> PROFILE_SLEEP_S]>>

\* if FETCH_PROFILES and item.get("profile_link")
WantsProfile(flag, it) == flag /\ it.profile_link # <<>>

Init ==
    /\ pc = "start"
    /\ FETCH_PROFILES \in BOOLEAN
    /\ resp = None /\ todo = 0 /\ seen = <<>> /\ tr = NoCellsRow /\ item = Unset
    /\ items = <<>> /\ log = <<>> /\ json_file = None /\ html_file = None
    /\ fetch = Idle

\* resp = fetch_with_retries(URL): the call
MainFetch ==
    /\ pc = "start"
    /\ fetch' = CallFetch(DefaultMaxRetries, DefaultBackoff)
    /\ pc' = "fetch_listing"
    /\ UNCHANGED <<FETCH_PROFILES, resp, todo, seen, tr, item, items, log,
                   json_file, html_file>>

\* fetch_with_retries(URL) raised: nothing in main catches it.
MainAbort ==
    /\ pc = "fetch_listing" /\ fetch.st = "raised"
    /\ pc' = "aborted"
    /\ fetch' = Idle
    /\ UNCHANGED <<FETCH_PROFILES, resp, todo, seen, tr, item, items, log,
                   json_file, html_file>>

\* The page is parsed: table.items is there with its rows, or absent (no rows).
MainParse ==
    /\ pc = "fetch_listing" /\ fetch.st = "returned"
    /\ \E table \in BOOLEAN, n \in 0..MaxRows :
         /\ (~table => n = 0)
         /\ resp' = Some([table |-> table, rows |-> n])
         /\ todo' = n
    /\ pc' = "loop"
    /\ fetch' = Idle
    /\ UNCHANGED <<FETCH_PROFILES, seen, tr, item, items, log, json_file, html_file>>

\* One iteration of the loop up to the profile call.  The rows of the fetched
\* page are fixed by the page; the model draws each when the loop reaches it,
\* which yields the same runs.  The row is parsed; it is
\* skipped, or the parse raises, or the item goes on to the profile fetch, or
\* it gets the default fields and is appended.
MainRow ==
    /\ pc = "loop" /\ todo > 0
    /\ \E r \in PageRows :
         LET res == extract_rumour_row(r)
         IN  /\ tr' = r
             /\ seen' = Append(seen, r)
             /\ IF res.kind = "none"
                THEN /\ item' = res
                     /\ todo' = todo - 1
                     /\ UNCHANGED <<pc, items, log, fetch>>
                ELSE IF res.kind = "raise"
                THEN /\ item' = res
                     /\ pc' = "crashed"
                     /\ UNCHANGED <<todo, items, log, fetch>>
                ELSE IF WantsProfile(FETCH_PROFILES, res)
                THEN /\ item' = res
                     /\ pc' = "fetch_profile"
                     /\ fetch' = CallFetch(DefaultMaxRetries, DefaultBackoff)
                     /\ log' = Append(log, [ev |-> "profile_call", ok |-> TRUE,
                                            n |-> Len(seen) + 1])
                     /\ UNCHANGED <<todo, items>>
                ELSE /\ item' = Update(EmptyDetails, res)
                     /\ items' = Append(items, DictOf(item'))
                     /\ todo' = todo - 1
                     /\ UNCHANGED <<pc, log, fetch>>
    /\ UNCHANGED <<FETCH_PROFILES, resp, json_file, html_file>>

\* The rest of the iteration: extract_player_details returns (its fetch returned
\* a page, or raised and the except branch answered), item.update(details),
\* the politeness sleep, items.append(item).
MainProfile ==
    /\ pc = "fetch_profile" /\ fetch.st \in {"returned", "raised"}
    /\ \E page \in ProfilePages :
         /\ item' = Update(extract_player_details(fetch, page), item)
         /\ items' = Append(items, DictOf(item'))
    /\ log' = AfterProfile(log, fetch.st = "returned")
    /\ todo' = todo - 1
    /\ pc' = "loop"
    /\ fetch' = Idle
    /\ UNCHANGED <<FETCH_PROFILES, resp, seen, tr, json_file, html_file>>

\* The loop is over: out/ is made and the JSON payload written.
MainWriteJson ==
    /\ pc = "loop" /\ todo = 0
    /\ json_file' = Some([source |-> URL, competition |-> <<"L","1">>, season |-> <<"2","0","2","5">>,
                          count |-> Len(items), items |-> items])
    /\ pc' = "write_html"
    /\ UNCHANGED <<FETCH_PROFILES, resp, todo, seen, tr, item, items, log,
                   html_file, fetch>>

\* html = build_email_html(items, URL), written to out/defender_rumours.html.
MainWriteHtml ==
    /\ pc = "write_html"
    /\ html_file' = Some(build_email_html(items, URL))
    /\ pc' = "done"
    /\ UNCHANGED <<FETCH_PROFILES, resp, todo, seen, tr, item, items, log,
                   json_file, fetch>>

Next ==
    \/ MainFetch
    \/ GetOk
    \/ \E e \in GetExceptions : GetFail(e)
    \/ MainAbort
    \/ MainParse
    \/ MainRow
    \/ MainProfile
    \/ MainWriteJson
    \/ MainWriteHtml

Spec == Init /\ [][Next]_vars

\* ---------------------------------------------------------------------
\* Properties.

\* The row has a top-level cell and a position candidate of its player cell
\* whose text holds a defender keyword.
RowMatches(r) ==
    /\ r.tds > 0
    /\ \E i \in DOMAIN r.position_els :
         \E k \in DEFENDER_KEYWORDS : Contains(lower(text(Some(r.position_els[i]))), k)

Terminal == {"done", "aborted", "crashed"}

\* No row is in flight: between iterations, or after the loop.
BetweenRows == pc \in {"loop", "write_html", "done", "crashed"}

MatchingSeen == {i \in DOMAIN seen : RowMatches(seen[i])}

(* C1: every row main has taken yields a record exactly when it has a top-level
   cell and a position candidate holding a defender keyword, and items holds
   exactly those records: extract_rumour_row returns a record for the row just
   taken iff the row matches, and items has one entry per matching row taken. *)
C1_RecordIffDefender ==
    (BetweenRows /\ seen # <<>>) =>
        /\ (item.kind = "record") <=> RowMatches(tr)
        /\ Len(items) = Cardinality(MatchingSeen)

\* The part of C1 that holds of the code: the filter itself, for every row
\* whose parse returned.
FilterWhenReturned ==
    (BetweenRows /\ seen # <<>> /\ item.kind # "raise") =>
        /\ (item.kind = "record") <=> RowMatches(tr)
        /\ Len(items) = Cardinality(MatchingSeen)

RECURSIVE LexLess(_, _)
LexLess(a, b) ==
    IF b = <<>> THEN FALSE
    ELSE IF a = <<>> THEN TRUE
    ELSE IF CodePoint[Head(a)] # CodePoint[Head(b)] THEN CodePoint[Head(a)] < CodePoint[Head(b)]
    ELSE LexLess(Tail(a), Tail(b))

\* Known probabilities first and non-increasing, ties in ascending player name.
SortedItems(its) ==
    \A i, j \in DOMAIN its :
        i < j =>
            /\ its[i].probability = None => its[j].probability = None
            /\ (its[i].probability # None /\ its[j].probability # None)
                   => its[i].probability[1] >= its[j].probability[1]
            /\ its[i].probability = its[j].probability
                   => (its[i].player = its[j].player \/ LexLess(its[i].player, its[j].player))

(* C2: the items list written to the JSON payload (the list that is rendered
   too) is sorted: known probability before unknown, known probabilities
   non-increasing, equal probabilities in non-decreasing player name. *)
C2_ItemsSorted ==
    json_file # None => SortedItems(json_file[1].items)

Entities ==
    { <<"&","a","m","p",";">>, <<"&","l","t",";">>, <<"&","g","t",";">>, <<"&","q","u","o","t",";">>, <<"&","#","x","2","7",";">>, <<"&","#","3","9",";">> }

\* No literal < > " ' in s, and every & of s starts an entity.
Escaped(s) ==
    \A i \in DOMAIN s :
        /\ s[i] \notin {"<", ">", "\"", "'"}
        /\ s[i] = "&" => \E e \in Entities :
                            /\ i + Len(e) - 1 <= Len(s)
                            /\ SubSeq(s, i, i + Len(e) - 1) = e

(* C3: in the markup build_email_html returns, no interpolated field value
   holds a literal & < > " or ': each occurs only as its escaped entity. *)
C3_ValuesEscaped ==
    html_file # None =>
        \A n \in DOMAIN html_file[1] :
            html_file[1][n].k = "value" => Escaped(html_file[1][n].s)

\* The integer the width regex reads out of a style, or None.
ParsedPercent(style) ==
    LET m == WidthSearch(style, 1) IN IF m = None THEN None ELSE Some(ParseInt(m[1]))

OutOfRangeBar ==
    /\ item.kind = "record" /\ tr.prob_bar # None
    /\ ParsedPercent(tr.prob_bar[1]) # None
    /\ ParsedPercent(tr.prob_bar[1])[1] > 100

(* C4 as stated: a parsed percentage above 100 is rejected, the record's
   probability is unknown. *)
C4_OutOfRangeRejected == OutOfRangeBar => item.probability = None

(* C4 as amended: a parsed percentage above 100 is adjusted to 100, not
   rejected, and every record's probability is unknown or within 0..100. *)
C4_OutOfRangeClamped ==
    item.kind = "record" =>
        /\ item.probability = None \/ item.probability[1] \in 0..100
        /\ OutOfRangeBar => item.probability = Some(100)

C4_Witness == OutOfRangeBar /\ pc = "extracted" /\ item.probability = Some(100)

(* C5: the JSON file and the HTML file are both written iff the fetch of the
   listing page succeeds: nothing is written when it raises, and once it has
   succeeded a finished run has written both. *)
C5_OutputsIffFetched ==
    /\ pc = "aborted" => (json_file = None /\ html_file = None)
    /\ (json_file # None \/ html_file # None) => resp # None
    /\ (resp # None /\ pc \in Terminal) => (json_file # None /\ html_file # None)

FailedProfiles == {j \in DOMAIN log : log[j].ev = "profile_return" /\ ~log[j].ok}

\* The row a profile return at log index j belongs to: the call before it.
RowOfReturn(j) == log[j - 1].n

\* The entry of items made for row n of seen.
ItemOfRow(n) == items[Cardinality({i \in MatchingSeen : i <= n})]

DegradedOnly(n) ==
    LET res == extract_rumour_row(seen[n])
        it == ItemOfRow(n)
    IN  /\ \A f \in DOMAIN DictOf(res) : it[f] = res[f]
        /\ \A f \in DOMAIN EmptyDetails : it[f] = <<>>

(* C6: a failed profile fetch never aborts the run: the record is appended with
   its extracted fields unchanged and the four enrichment fields empty, every
   later row is processed and the outputs are written. *)
C6_ProfileFailureTolerated ==
    (BetweenRows /\ FailedProfiles # {}) =>
        /\ \A j \in FailedProfiles : DegradedOnly(RowOfReturn(j))
        /\ pc \in Terminal =>
              /\ Len(seen) = resp[1].rows
              /\ json_file # None /\ html_file # None

\* The part of C6 that holds of the code: the step that ends a failed profile
\* fetch appends the degraded record and goes on with the loop.
FailedProfileAppends ==
    (BetweenRows /\ FailedProfiles # {} /\ pc # "crashed") =>
        /\ \A j \in FailedProfiles : DegradedOnly(RowOfReturn(j))
        /\ pc \in Terminal =>
              /\ Len(seen) = resp[1].rows
              /\ json_file # None /\ html_file # None

ProfileCalls == {j \in DOMAIN log : log[j].ev = "profile_call"}

IsPause(e) == e.ev = "sleep" /\ e.n = PROFILE_SLEEP_S

(* C7: profile fetches are sequential and paced: a pause of PROFILE_SLEEP_S
   lies between the end of one and the start of the next, a fetch is issued
   only for a row that passed the defender filter and has a profile link, at
   most once per row, and never with enrichment disabled. *)
C7_ProfilesPaced ==
    /\ \A i, j \in DOMAIN log :
         (i < j /\ log[i].ev = "profile_return" /\ log[j].ev = "profile_call")
             => \E k \in (i + 1)..(j - 1) : IsPause(log[k])
    /\ \A i, j \in ProfileCalls :
         i < j => \E k \in (i + 1)..(j - 1) : log[k].ev = "profile_return"
    /\ \A j \in ProfileCalls :
         /\ RowMatches(seen[log[j].n])
         /\ seen[log[j].n].player_link # None
    /\ \A i, j \in ProfileCalls : i # j => log[i].n # log[j].n
    /\ ~FETCH_PROFILES => (ProfileCalls = {} /\ pc # "fetch_profile")

C7_Witness ==
    /\ Cardinality(ProfileCalls) >= 2
    /\ \E k \in DOMAIN log : IsPause(log[k])

(* C8: a record's player is the text of the profile link of the player cell
   when there is one, and otherwise the normalized text of the whole cell. *)
C8_PlayerNameFallback ==
    item.kind = "record" =>
        item.player = IF tr.player_link # None THEN text(tr.player_link)
                      ELSE norm(tr.player_cell_text)

Failures(gets) == {k \in DOMAIN gets : gets[k] # "ok"}

(* C9: fetch_with_retries ends after at most max_retries GETs: it returns at the
   first success and tries no more; after failed attempt i it sleeps backoff*i
   only when i < max_retries; when every attempt failed it raises the last
   one's exception; with max_retries = 0 it makes no GET and raises RuntimeError. *)
C9_FetchBounded ==
    LET n == Len(fetch.gets)
        m == fetch.max_retries
    IN  /\ n <= m
        /\ fetch.st \in {"trying", "returned", "raised"}
        /\ fetch.st = "trying" => (n < m /\ Failures(fetch.gets) = 1..n)
        /\ fetch.st = "returned" => (n >= 1 /\ Failures(fetch.gets) = 1..(n - 1))
        /\ fetch.sleeps = [k \in 1..Min(Cardinality(Failures(fetch.gets)), m - 1)
                             |-> fetch.backoff * k]
        /\ fetch.st = "raised" =>
              IF m >= 1
              THEN n = m /\ Failures(fetch.gets) = 1..n /\ fetch.raised = Some(fetch.gets[n])
              ELSE n = 0 /\ fetch.raised = Some("RuntimeError")

C9_Witness ==
    /\ fetch.st = "raised" /\ fetch.max_retries >= 2
    /\ Len(fetch.sleeps) = fetch.max_retries - 1

TipText(r) == lower(JoinSpace(r.titles))

NamesReturn(r) ==
    Contains(TipText(r), <<"r","e","t","u","r","n"," ","f","r","o","m"," ","l","o","a","n">>) \/ Contains(TipText(r), <<"e","n","d"," ","o","f"," ","l","o","a","n">>)

(* C10: extract_rumour_row never yields transfer_type "Return/End of loan":
   a row whose titles hold "return from loan" or "end of loan" is classified
   "Loan", and the only values are "Loan", "Free", "Transfer" and "". *)
C10_NoReturnType ==
    item.kind = "record" =>
        /\ item.transfer_type \in { <<"L","o","a","n">>, <<"F","r","e","e">>, <<"T","r","a","n","s","f","e","r">>, <<>> }
        /\ NamesReturn(tr) => item.transfer_type = <<"L","o","a","n">>

C10_Witness == item.kind = "record" /\ NamesReturn(tr) /\ item.transfer_type = <<"L","o","a","n">>

====
